---- MODULE Spec2Model ----
(***************************************************************************)
(* A model of recbole/sampler/sampler.py: the cyclic random pool           *)
(* (random_list, random_pr), the per-key exclusion index (used_ids), the   *)
(* rejection loop of sample_by_key_ids with its two paths, the             *)
(* construction and phase selection of Sampler, KGSampler and             *)
(* RepeatableSampler, and SeqSampler with its sample_neg_sequence.         *)
(*                                                                         *)
(* Python sequences are 0-based; the model keeps them as TLA+ sequences    *)
(* (1-based) and reads them through At / NpIndex, so every index written   *)
(* below is the index the Python code uses.                                *)
(***************************************************************************)
EXTENDS Integers, Sequences, FiniteSets, TLC

\* ------------------------------------------------------------------ bounds
\* item_num / entity_num of the dataset: value IDs are 0..NItems-1, 0 is [pad]
NItems == 3
\* user_num of the dataset: user IDs are 0..NUsers-1
NUsers == 2
\* interactions per phase dataset
MaxInter == 1
\* triples of the knowledge-graph dataset
MaxTriples == 2
\* random() is called only while random_pr < MaxPr (Python ints are unbounded)
MaxPr == 3
\* largest n of a direct random_num(n) call
MaxDraw == 3
\* longest key_ids batch
MaxKeys == 2
\* largest num (samples per key)
MaxNum == 2
\* longest pos_sequence of sample_neg_sequence
MaxSeq == 3

Phases == <<"train", "valid">>
PhaseNames == {"train", "valid", "test"}
\* '' is the tag AbstractSampler.__init__ starts from (line 38)
DistTags == {"uniform", "popularity", "other", ""}
Instances == {"orig", "copy"}

Null == [tag |-> "null"]

\* ------------------------------------------------------- Python / numpy
Range(s) == {s[i] : i \in 1..Len(s)}

At(s, i) == s[i + 1]

Min(a, b) == IF a < b THEN a ELSE b

Max(a, b) == IF a > b THEN a ELSE b

\* a Python slice bound: negative counts from the end, then clamped to [0, n]
SliceBound(b, n) == IF b < 0 THEN Max(b + n, 0) ELSE Min(b, n)

\* s[a:b]
PySlice(s, a, b) == SubSeq(s, SliceBound(a, Len(s)) + 1, SliceBound(b, Len(s)))

\* s[a:]
PySliceFrom(s, a) == SubSeq(s, SliceBound(a, Len(s)) + 1, Len(s))

\* numpy integer indexing of an array of length n: -n..-1 wrap, others raise
NpInRange(i, n) == -n <= i /\ i < n

NpIndex(i, n) == IF i < 0 THEN i + n ELSE i

\* np.arange(a, b)
Arange(a, b) == [i \in 1..Max(b - a, 0) |-> a + i - 1]

\* every outcome of np.random.shuffle(s)
Shuffles(s) ==
    LET n == Len(s)
        bij == {f \in [1..n -> 1..n] : \A i, j \in 1..n : f[i] = f[j] => i = j}
    IN {[i \in 1..n |-> s[f[i]]] : f \in bij}

\* a.argsort(kind='mergesort'): stable. The quicksort argsort of line 127 is
\* modelled by the same permutation: lines 128-134 read perm only through
\* aux = value[perm] and rev_idx[perm], which do not depend on the order of ties.
ArgSort(a) ==
    LET n == Len(a)
        rank(i) == Cardinality({j \in 1..n : a[j] < a[i] \/ (a[j] = a[i] /\ j < i)})
    IN [k \in 1..n |-> (CHOOSE i \in 1..n : rank(i) = k - 1) - 1]

\* a[idx] for an index array idx (fancy indexing)
Take(a, idx) == [k \in 1..Len(idx) |-> At(a, idx[k])]

\* a[mask] for a boolean mask
RECURSIVE Compress(_, _)
Compress(a, mask) ==
    IF a = <<>> THEN <<>>
    ELSE IF Head(mask) THEN <<Head(a)>> \o Compress(Tail(a), Tail(mask))
         ELSE Compress(Tail(a), Tail(mask))

\* np.cumsum(mask) for a boolean mask
CumSum(mask) == [k \in 1..Len(mask) |-> Cardinality({j \in 1..k : mask[j]})]

\* r with r[idx[k]] = vals[k]; idx is a permutation of 0..n-1 where it is used
Scatter(idx, vals) ==
    [i \in 1..Len(idx) |-> vals[CHOOSE k \in 1..Len(idx) : idx[k] = i - 1]]

\* list(a_set): some order of the set's elements; the ascending one is taken,
\* the only reader (line 136) sorts the array it is concatenated into
RECURSIVE SetToList(_)
SetToList(S) ==
    IF S = {} THEN <<>>
    ELSE LET m == CHOOSE x \in S : \A y \in S : x <= y
         IN <<m>> \o SetToList(S \ {m})

\* np.tile(a, n)
RECURSIVE Tile(_, _)
Tile(a, n) == IF n <= 0 THEN <<>> ELSE a \o Tile(a, n - 1)

\* ------------------------------------------------------------- datasets
\* an interaction (or triple) is <<key, value>>: <<uid, iid>> or <<hid, tid>>
Uids(inter_feat) == [i \in 1..Len(inter_feat) |-> inter_feat[i][1]]

Iids(inter_feat) == [i \in 1..Len(inter_feat) |-> inter_feat[i][2]]

RECURSIVE Concat(_)
Concat(seqs) == IF seqs = <<>> THEN <<>> ELSE Head(seqs) \o Concat(Tail(seqs))

\* cur[uid].add(iid), line 217 (line 309 for cur[hid].add(tid))
Add(cur, uid, iid) ==
    [i \in 1..Len(cur) |->
        IF i = NpIndex(uid, Len(cur)) + 1 THEN cur[i] \cup {iid} ELSE cur[i]]

\* the inner loop over zip(uids, iids), in order
RECURSIVE AddAll(_, _)
AddAll(cur, inter_feat) ==
    IF inter_feat = <<>> THEN cur
    ELSE AddAll(Add(cur, Head(inter_feat)[1], Head(inter_feat)[2]), Tail(inter_feat))

\* Cur with every phase starting from empty sets instead of a copy of last
CurFresh(datasets, n_users, n) ==
    IF n = 0 THEN [u \in 1..n_users |-> {}]
    ELSE AddAll([u \in 1..n_users |-> {}], datasets[n])

\* the loop of Sampler.get_used_ids: cur after the n-th phase, which starts
\* as a copy of last, the sets of the phase before
RECURSIVE Cur(_, _, _)
Cur(datasets, n_users, n) ==
    IF n = 0 THEN [u \in 1..n_users |-> {}]
    ELSE AddAll(Cur(datasets, n_users, n - 1), datasets[n])

UsedItemId(datasets, n_users, n) == [i \in 1..n |-> Cur(datasets, n_users, i)]

\* Full without the [pad] item counted: len == n
FullNoPad(used_sets, n) ==
    \E k \in 1..Len(used_sets) : Cardinality(used_sets[k]) = n

\* the check that ends get_used_ids: some set has len + 1 == n
Full(used_sets, n) ==
    \E k \in 1..Len(used_sets) : Cardinality(used_sets[k]) + 1 = n

\* used_item_id[phase] = cur: a later phase of the same name overwrites
LastIndexOf(phases, p) ==
    CHOOSE i \in 1..Len(phases) :
        phases[i] = p /\ \A j \in (i + 1)..Len(phases) : phases[j] # p

\* Sampler.get_used_ids: [err, val]; val maps phase -> array of sets
Sampler_get_used_ids(phases, datasets, n_users, n_items) ==
    LET used == UsedItemId(datasets, n_users, Len(phases))
    IN IF Full(used[Len(phases)], n_items)
       THEN [err |-> "ValueError", val |-> Null]
       ELSE [err |-> "none",
             val |-> [tag |-> "dict",
                      val |-> [p \in Range(phases) |-> used[LastIndexOf(phases, p)]]]]

\* KGSampler.get_used_ids: [err, val]; val is the array of sets
KGSampler_get_used_ids(triples, entity_num) ==
    LET used == AddAll([e \in 1..entity_num |-> {}], triples)
    IN IF Full(used, entity_num)
       THEN [err |-> "ValueError", val |-> Null]
       ELSE [err |-> "none", val |-> [tag |-> "array", val |-> used]]

\* get_random_list with the uniform pool starting at the padding ID: np.arange(0, n)
get_random_list_FromPad(inp, distribution) ==
    IF inp.kind = "SeqSampler" \/ distribution = "uniform"
    THEN [err |-> "none", val |-> Arange(0, inp.n_items)]
    ELSE IF distribution = "popularity"
    THEN [err |-> "none",
          val |-> IF inp.kind = "KGSampler"
                  THEN Uids(inp.datasets[1]) \o Iids(inp.datasets[1])
                  ELSE Concat([p \in 1..Len(inp.datasets) |-> Iids(inp.datasets[p])])]
    ELSE [err |-> "NotImplementedError", val |-> <<>>]

\* get_random_list of Sampler, KGSampler and RepeatableSampler (its one
\* dataset): [err, val]; the one of SeqSampler (line 448) does not read the tag
get_random_list(inp, distribution) ==
    IF inp.kind = "SeqSampler" \/ distribution = "uniform"
    THEN [err |-> "none", val |-> Arange(1, inp.n_items)]
    ELSE IF distribution = "popularity"
    THEN [err |-> "none",
          val |-> IF inp.kind = "KGSampler"
                  THEN Uids(inp.datasets[1]) \o Iids(inp.datasets[1])
                  ELSE Concat([p \in 1..Len(inp.datasets) |-> Iids(inp.datasets[p])])]
    ELSE [err |-> "NotImplementedError", val |-> <<>>]

\* RepeatableSampler.get_used_ids is an empty set for each user;
\* SeqSampler.get_used_ids is "pass": used_ids is None
get_used_ids(inp) ==
    IF inp.kind = "Sampler"
    THEN Sampler_get_used_ids(inp.phases, inp.datasets, inp.n_users, inp.n_items)
    ELSE IF inp.kind = "KGSampler"
    THEN KGSampler_get_used_ids(inp.datasets[1], inp.n_items)
    ELSE IF inp.kind = "RepeatableSampler"
    THEN [err |-> "none", val |-> [tag |-> "array", val |-> [u \in 1..inp.n_users |-> {}]]]
    ELSE [err |-> "none", val |-> [tag |-> "None", val |-> <<>>]]

\* ------------------------------------------------------------ the pool
\* a sampler object s is a record: distribution, random_list, random_pr,
\* random_list_length, used_ids, phases, phase, and random_list_of: "dataset"
\* when random_list is the array of the dataset's item column itself (line 374),
\* "own" when it is an object of the sampler's

\* set_distribution without the early return of lines 51-52
set_distribution_Always(inp, s, distribution) ==
    LET list == get_random_list(inp, distribution)
        tagged == [s EXCEPT !.distribution = distribution]
        of == IF inp.kind = "RepeatableSampler" /\ distribution = "popularity"
              THEN "dataset" ELSE "own"
    IN IF list.err # "none"
       THEN {[err |-> list.err, s |-> tagged, inplace |-> FALSE]}
       ELSE {[err |-> "none",
              s |-> [tagged EXCEPT !.random_list = shuffled,
                                   !.random_pr = 0,
                                   !.random_list_length = Len(shuffled),
                                   !.random_list_of = of],
              inplace |-> of = "dataset"] : shuffled \in Shuffles(list.val)}

\* AbstractSampler.set_distribution on the fields s: the outcomes [err, s,
\* inplace], one for each order np.random.shuffle can leave; inplace when the
\* array it shuffled is the dataset's
set_distribution(inp, s, distribution) ==
    IF s.distribution = distribution
    THEN {[err |-> "none", s |-> s, inplace |-> FALSE]}
    ELSE LET list == get_random_list(inp, distribution)
             tagged == [s EXCEPT !.distribution = distribution]
             of == IF inp.kind = "RepeatableSampler" /\ distribution = "popularity"
                   THEN "dataset" ELSE "own"
         IN IF list.err # "none"
            THEN {[err |-> list.err, s |-> tagged, inplace |-> FALSE]}
            ELSE {[err |-> "none",
                   s |-> [tagged EXCEPT !.random_list = shuffled,
                                        !.random_pr = 0,
                                        !.random_list_length = Len(shuffled),
                                        !.random_list_of = of],
                   inplace |-> of = "dataset"] : shuffled \in Shuffles(list.val)}

\* the dataset after the call: its item column is the array that was shuffled
Shuffled(inp, o) ==
    IF o.inplace
    THEN [inp EXCEPT !.datasets[1] =
              [k \in 1..Len(@) |-> <<@[k][1], o.s.random_list[k]>>]]
    ELSE inp

\* the sampler objects after the call on self: every other object whose
\* random_list is the dataset's array sees the new order
SharePool(ss, self, o) ==
    [i \in DOMAIN ss |->
        IF i = self THEN o.s
        ELSE IF o.inplace /\ ss[i] # Null /\ ss[i].random_list_of = "dataset"
        THEN [ss[i] EXCEPT !.random_list = o.s.random_list]
        ELSE ss[i]]

\* AbstractSampler.random: [err, val, pr]
random(s) ==
    IF s.random_list_length = 0
    THEN [err |-> "ZeroDivisionError", val |-> 0, pr |-> s.random_pr]
    ELSE [err |-> "none",
          val |-> At(s.random_list, s.random_pr % s.random_list_length),
          pr |-> s.random_pr + 1]

\* RandomNumLoop going on at index 1 after the end of the pool
RECURSIVE RandomNumLoopSkip(_, _, _, _, _)
RandomNumLoopSkip(list, length, pr, num, value_id) ==
    IF pr + num <= length
    THEN [val |-> value_id \o PySlice(list, pr, pr + num), pr |-> pr + num]
    ELSE RandomNumLoopSkip(list, length, Min(1, length - 1), num - (length - pr),
                           value_id \o PySliceFrom(list, pr))

\* the while loop of random_num: [val, pr]
RECURSIVE RandomNumLoop(_, _, _, _, _)
RandomNumLoop(list, length, pr, num, value_id) ==
    IF pr + num <= length
    THEN [val |-> value_id \o PySlice(list, pr, pr + num), pr |-> pr + num]
    ELSE RandomNumLoop(list, length, 0, num - (length - pr),
                       value_id \o PySliceFrom(list, pr))

\* random_num without line 91, the cursor taken as it is
random_num_NoModulo(s, num) ==
    IF s.random_list_length = 0
    THEN [err |-> "ZeroDivisionError", val |-> <<>>, pr |-> s.random_pr]
    ELSE LET r == RandomNumLoop(s.random_list, s.random_list_length,
                                s.random_pr, num, <<>>)
         IN [err |-> "none", val |-> r.val, pr |-> r.pr]

\* AbstractSampler.random_num: [err, val, pr]
random_num(s, num) ==
    IF s.random_list_length = 0
    THEN [err |-> "ZeroDivisionError", val |-> <<>>, pr |-> s.random_pr]
    ELSE LET r == RandomNumLoop(s.random_list, s.random_list_length,
                                s.random_pr % s.random_list_length, num, <<>>)
         IN [err |-> "none", val |-> r.val, pr |-> r.pr]

\* ------------------------------------------------- the rejection checks
\* np.isin(value_ids, used), line 124
IsIn(value_ids, used) == [k \in 1..Len(value_ids) |-> value_ids[k] \in used]

\* FastMask without the deduplication of lines 129-134: the drawn values are
\* merged with the used array as they are
FastMaskNoUnique(value0, used_set) ==
    LET used == SetToList(used_set)
        perm == ArgSort(value0)
        aux == Take(value0, perm)
        rev_idx == Scatter(perm, [k \in 1..Len(aux) |-> k - 1])
        ar == aux \o used
        order == ArgSort(ar)
        sar == Take(ar, order)
        flag == [k \in 1..Len(ar) |-> k < Len(ar) /\ sar[k + 1] = sar[k]]
        ret == Scatter(order, flag)
    IN Take(ret, rev_idx)

\* lines 127-142: for each freshly drawn value, whether it is in used,
\* by sorting, deduplicating and one stable merge with the used array
FastMask(value0, used_set) ==
    LET used == SetToList(used_set)
        perm == ArgSort(value0)
        aux == Take(value0, perm)
        mask == [k \in 1..Len(aux) |-> k = 1 \/ aux[k] # aux[k - 1]]
        value == Compress(aux, mask)
        csum == CumSum(mask)
        rev_idx == Scatter(perm, [k \in 1..Len(mask) |-> csum[k] - 1])
        ar == value \o used
        order == ArgSort(ar)
        sar == Take(ar, order)
        flag == [k \in 1..Len(ar) |-> k < Len(ar) /\ sar[k + 1] = sar[k]]
        ret == Scatter(order, flag)
    IN Take(ret, rev_idx)

\* MixedMask reading the key at the index within check_list, not at the position
MixedMaskByRank(used_ids, key_ids, check_list, value_ids) ==
    [k \in 1..Len(check_list) |->
        At(value_ids, check_list[k])
            \in At(used_ids, NpIndex(At(key_ids, k - 1), Len(used_ids)))]

\* lines 150-153: position by position, against that position's own key
MixedMask(used_ids, key_ids, check_list, value_ids) ==
    [k \in 1..Len(check_list) |->
        At(value_ids, check_list[k])
            \in At(used_ids, NpIndex(At(key_ids, check_list[k]), Len(used_ids)))]

\* value_ids[check_list] = value
Assign(value_ids, check_list, value) ==
    [i \in 1..Len(value_ids) |->
        IF \E k \in 1..Len(check_list) : check_list[k] = i - 1
        THEN value[CHOOSE k \in 1..Len(check_list) : check_list[k] = i - 1]
        ELSE value_ids[i]]

\* the except IndexError branch of sample_by_user_ids / sample_by_entity_ids:
\* the error it ends with, "none" when the loop finds no bad key (returns None)
KeyExists(inp, key_id) ==
    IF inp.kind \in {"Sampler", "RepeatableSampler"}
    THEN ~(key_id < 0 \/ key_id >= inp.n_users)
    ELSE key_id \in Range(Uids(inp.datasets[1]))

OnIndexError(inp, key_ids) ==
    IF \E k \in 1..Len(key_ids) : ~KeyExists(inp, key_ids[k])
    THEN "ValueError" ELSE "none"

\* ---------------------------------------------------------------- state
VARIABLES
    input,      \* what the sampler is constructed from: kind, phases, datasets, sizes;
                \* the datasets are objects a RepeatableSampler writes to (line 55)
    samplers,   \* the sampler objects the caller holds: "orig", and "copy" (set_phase's result)
    pc,         \* "new", "failed" (the constructor raised), "idle", "loop", "done"
    frame,      \* the locals of the sample_by_key_ids or sample_neg_sequence call,
                \* kept until its result is taken
    result      \* the finished call: what it was and what it returned or raised

vars == <<input, samplers, pc, frame, result>>

NoFrame ==
    [self |-> "none", user_ids |-> <<>>, num |-> 0, path |-> "none", key_ids |-> <<>>,
     used |-> {}, value_ids |-> <<>>, check_list |-> <<>>, rounds |-> 0,
     pos_sequence |-> <<>>, entry |-> "none"]

None == [tag |-> "None", val |-> <<>>]

Tensor(value_ids) == [tag |-> "tensor", val |-> value_ids]

Sampler_(v) == [tag |-> "sampler", val |-> v]

NoResult == [op |-> "none", self |-> "none", arg |-> <<>>, err |-> "none", ret |-> None]

Returned(op, self, arg, ret) ==
    [op |-> op, self |-> self, arg |-> arg, err |-> "none", ret |-> ret]

Raised(op, self, arg, err) ==
    [op |-> op, self |-> self, arg |-> arg, err |-> err, ret |-> None]

SeqsUpTo(S, n) == UNION {[1..k -> S] : k \in 0..n}

UserIds == 0..(NUsers - 1)

ItemIds == 1..(NItems - 1)

\* one dataset for each phase, or one dataset too few
SamplerInputs ==
    {[kind |-> "Sampler", phases |-> Phases, datasets |-> ds,
      n_users |-> NUsers, n_items |-> NItems] :
        ds \in UNION {[1..k -> SeqsUpTo(UserIds \X ItemIds, MaxInter)] :
                          k \in (Len(Phases) - 1)..Len(Phases)}}

\* RepeatableSampler is given the union of the datasets of its phases; it
\* reads the item column only (line 374), so the interactions are one user's
RepeatableInputs ==
    {[kind |-> "RepeatableSampler", phases |-> Phases, datasets |-> <<dataset>>,
      n_users |-> NUsers, n_items |-> NItems] :
        dataset \in SeqsUpTo({0} \X ItemIds, Len(Phases) * MaxInter)}

KGInputs ==
    {[kind |-> "KGSampler", phases |-> <<>>, datasets |-> <<triples>>,
      n_users |-> NItems, n_items |-> NItems] :
        triples \in SeqsUpTo(ItemIds \X ItemIds, MaxTriples)}

\* SeqSampler reads item_num of its dataset only
SeqInputs ==
    {[kind |-> "SeqSampler", phases |-> <<>>, datasets |-> <<>>,
      n_users |-> NUsers, n_items |-> NItems]}

Init ==
    /\ input \in SamplerInputs \cup KGInputs \cup RepeatableInputs \cup SeqInputs
    /\ samplers = [i \in Instances |-> Null]
    /\ pc = "new"
    /\ frame = NoFrame
    /\ result = NoResult

\* ------------------------------------------------------------- construction
\* the fields AbstractSampler.__init__ sets before it calls set_distribution
\* (lines 38-41); used_ids is not set yet
NewSampler(inp) ==
    [distribution |-> "", random_list |-> <<>>, random_pr |-> 0,
     random_list_length |-> 0, random_list_of |-> "own", used_ids |-> Null,
     phases |-> inp.phases, phase |-> "unset"]

\* Sampler.__init__ (the test of lines 177-178), KGSampler.__init__,
\* RepeatableSampler.__init__ and SeqSampler.__init__ with
\* AbstractSampler.__init__: set_distribution and then get_used_ids
Construct(distribution) ==
    /\ pc = "new"
    /\ IF input.kind = "Sampler" /\ Len(input.phases) # Len(input.datasets)
       THEN /\ pc' = "failed"
            /\ result' = Raised("construct", "orig", distribution, "ValueError")
            /\ UNCHANGED <<samplers, input>>
       ELSE \E o \in set_distribution(input, NewSampler(input), distribution) :
              LET used == get_used_ids(input)
              IN /\ input' = Shuffled(input, o)
                 /\ IF o.err # "none"
                    THEN /\ pc' = "failed"
                         /\ result' = Raised("construct", "orig", distribution, o.err)
                         /\ UNCHANGED samplers
                    ELSE IF used.err # "none"
                    THEN /\ pc' = "failed"
                         /\ result' = Raised("construct", "orig", distribution, used.err)
                         /\ UNCHANGED samplers
                    ELSE /\ pc' = "idle"
                         /\ result' = NoResult
                         /\ samplers' = [samplers EXCEPT !["orig"] =
                                            [o.s EXCEPT !.used_ids = used.val]]
    /\ UNCHANGED frame

\* ------------------------------------------------------------ pool calls
\* samplers[self].set_distribution(distribution)
SetDistribution(self, distribution) ==
    /\ pc = "idle"
    /\ samplers[self] # Null
    /\ \E o \in set_distribution(input, samplers[self], distribution) :
         /\ result' = IF o.err = "none"
                      THEN Returned("set_distribution", self, distribution, None)
                      ELSE Raised("set_distribution", self, distribution, o.err)
         /\ samplers' = SharePool(samplers, self, o)
         /\ input' = Shuffled(input, o)
    /\ pc' = "done"
    /\ UNCHANGED frame

\* Random taking the head of the pool and putting it at its end
RandomRotates(self) ==
    /\ pc = "idle"
    /\ samplers[self] # Null
    /\ samplers[self].random_pr < MaxPr
    /\ LET s == samplers[self]
           r == random(s)
       IN IF r.err # "none"
          THEN /\ pc' = "done"
               /\ result' = Raised("random", self, <<>>, r.err)
               /\ UNCHANGED samplers
          ELSE /\ samplers' = [samplers EXCEPT
                      ![self].random_pr = r.pr,
                      ![self].random_list = Tail(s.random_list) \o <<Head(s.random_list)>>]
               /\ UNCHANGED <<pc, result>>
    /\ UNCHANGED <<input, frame>>

\* AbstractSampler.random
Random(self) ==
    /\ pc = "idle"
    /\ samplers[self] # Null
    /\ samplers[self].random_pr < MaxPr
    /\ LET r == random(samplers[self])
       IN IF r.err # "none"
          THEN /\ pc' = "done"
               /\ result' = Raised("random", self, <<>>, r.err)
               /\ UNCHANGED samplers
          ELSE /\ samplers' = [samplers EXCEPT ![self].random_pr = r.pr]
               /\ UNCHANGED <<pc, result>>
    /\ UNCHANGED <<input, frame>>

\* AbstractSampler.random_num
RandomNum(self, num) ==
    /\ pc = "idle"
    /\ samplers[self] # Null
    /\ LET r == random_num(samplers[self], num)
       IN IF r.err # "none"
          THEN /\ pc' = "done"
               /\ result' = Raised("random_num", self, num, r.err)
               /\ UNCHANGED samplers
          ELSE /\ samplers' = [samplers EXCEPT ![self].random_pr = r.pr]
               /\ UNCHANGED <<pc, result>>
    /\ UNCHANGED <<input, frame>>

\* ---------------------------------------------------------- phase selection
\* new_sampler.used_ids[phase], line 243: a dict is read by its key, an
\* array of sets indexed by a string raises IndexError
UsedIdsOfPhase(used_ids, phase) ==
    IF used_ids.tag = "dict"
    THEN IF phase \in DOMAIN used_ids.val
         THEN [err |-> "none", val |-> [tag |-> "array", val |-> used_ids.val[phase]]]
         ELSE [err |-> "KeyError", val |-> Null]
    ELSE [err |-> "IndexError", val |-> Null]

\* set_phase handing out a sampler whose cursor starts again at 0
set_phase_FreshCursor(s, phase) ==
    IF phase \notin Range(s.phases)
    THEN [err |-> "ValueError", val |-> Null]
    ELSE LET u == UsedIdsOfPhase(s.used_ids, phase)
         IN IF u.err # "none"
            THEN [err |-> u.err, val |-> Null]
            ELSE [err |-> "none",
                  val |-> [s EXCEPT !.phase = phase, !.used_ids = u.val,
                                    !.random_pr = 0]]

\* Sampler.set_phase: [err, val]; val is the new sampler
set_phase(s, phase) ==
    IF phase \notin Range(s.phases)
    THEN [err |-> "ValueError", val |-> Null]
    ELSE LET u == UsedIdsOfPhase(s.used_ids, phase)
         IN IF u.err # "none"
            THEN [err |-> u.err, val |-> Null]
            ELSE [err |-> "none",
                  val |-> [s EXCEPT !.phase = phase, !.used_ids = u.val]]

\* RepeatableSampler.set_phase: the copy keeps used_ids as it is
RepeatableSampler_set_phase(s, phase) ==
    IF phase \notin Range(s.phases)
    THEN [err |-> "ValueError", val |-> Null]
    ELSE [err |-> "none", val |-> [s EXCEPT !.phase = phase]]

\* SetPhase setting the phase (and narrowing used_ids) on the sampler it is
\* called on as well
SetPhaseInPlace(self, phase) ==
    /\ pc = "idle"
    /\ input.kind \in {"Sampler", "RepeatableSampler"}
    /\ samplers[self] # Null
    /\ LET r == IF input.kind = "Sampler"
                THEN set_phase(samplers[self], phase)
                ELSE RepeatableSampler_set_phase(samplers[self], phase)
       IN IF r.err # "none"
          THEN /\ result' = Raised("set_phase", self, phase, r.err)
               /\ UNCHANGED samplers
          ELSE /\ result' = Returned("set_phase", self, phase, Sampler_("copy"))
               /\ samplers' = [i \in Instances |-> r.val]
    /\ pc' = "done"
    /\ UNCHANGED <<input, frame>>

\* copy = samplers[self].set_phase(phase)
SetPhase(self, phase) ==
    /\ pc = "idle"
    /\ input.kind \in {"Sampler", "RepeatableSampler"}
    /\ samplers[self] # Null
    /\ LET r == IF input.kind = "Sampler"
                THEN set_phase(samplers[self], phase)
                ELSE RepeatableSampler_set_phase(samplers[self], phase)
       IN IF r.err # "none"
          THEN /\ result' = Raised("set_phase", self, phase, r.err)
               /\ UNCHANGED samplers
          ELSE /\ result' = Returned("set_phase", self, phase, Sampler_("copy"))
               /\ samplers' = [samplers EXCEPT !["copy"] = r.val]
    /\ pc' = "done"
    /\ UNCHANGED <<input, frame>>

\* ---------------------------------------------------------------- sampling
\* the entry point of a sampling call: "wrapper" is sample_by_user_ids /
\* sample_by_entity_ids, "direct" is sample_by_key_ids called as it is
OpOf(entry) == IF entry = "wrapper" THEN "sample" ELSE "sample_by_key_ids"

\* what the call ends with when sample_by_key_ids raises err: the wrappers
\* catch IndexError only (lines 260-265, 333-338, 400-405), a direct call
\* raises err as it is
Finish(entry, self, user_ids, num, err) ==
    LET e == IF err = "IndexError" /\ entry = "wrapper"
             THEN OnIndexError(input, user_ids) ELSE err
    IN IF e = "none"
       THEN Returned(OpOf(entry), self, <<user_ids, num>>, None)
       ELSE Raised(OpOf(entry), self, <<user_ids, num>>, e)

\* the positions of check_list that a mask keeps
Keep(check_list, mask) == Compress(check_list, mask)

\* the round counter stops one past the number of distinct loop states
\* (cursor position x check_list), which no terminating run can exceed
RoundLimit(s, value_ids) == s.random_list_length * Len(value_ids)

\* AbstractSampler.sample_by_key_ids, entered through entry, up to the first
\* test of its while condition (lines 117-125, 145-148)
SampleByKeyIdsFrom(entry, self, user_ids, num) ==
    /\ pc = "idle"
    /\ samplers[self] # Null
    /\ LET s == samplers[self]
           key_num == Len(user_ids)
           total_num == key_num * num
           arg == <<user_ids, num>>
       IN IF key_num = 0
          THEN \* key_ids[0], line 120
               /\ pc' = "done"
               /\ result' = Finish(entry, self, user_ids, num, "IndexError")
               /\ UNCHANGED <<samplers, frame>>
          ELSE IF \A k \in 1..key_num : user_ids[k] = user_ids[1]
          THEN LET key_id == user_ids[1]
                   r == random_num(s, total_num)
               IN IF s.used_ids.tag = "None"
                  THEN \* self.used_ids[key_id], line 122, on None
                       /\ pc' = "done"
                       /\ result' = Finish(entry, self, user_ids, num, "TypeError")
                       /\ UNCHANGED <<samplers, frame>>
                  ELSE IF s.used_ids.tag = "dict"
                  THEN \* self.used_ids[key_id], line 122, on the dict of phases
                       /\ pc' = "done"
                       /\ result' = Finish(entry, self, user_ids, num, "KeyError")
                       /\ UNCHANGED <<samplers, frame>>
                  ELSE IF ~NpInRange(key_id, Len(s.used_ids.val))
                  THEN /\ pc' = "done"
                       /\ result' = Finish(entry, self, user_ids, num, "IndexError")
                       /\ UNCHANGED <<samplers, frame>>
                  ELSE IF r.err # "none"
                  THEN /\ pc' = "done"
                       /\ result' = Finish(entry, self, user_ids, num, r.err)
                       /\ UNCHANGED <<samplers, frame>>
                  ELSE IF Len(r.val) # Len(Arange(0, total_num))
                  THEN \* np.arange(total_num)[mask], line 124, with a mask of another
                       \* length (total_num < 0): the cursor has moved
                       /\ pc' = "done"
                       /\ result' = Finish(entry, self, user_ids, num, "IndexError")
                       /\ samplers' = [samplers EXCEPT ![self].random_pr = r.pr]
                       /\ UNCHANGED frame
                  ELSE LET used == At(s.used_ids.val, NpIndex(key_id, Len(s.used_ids.val)))
                           check_list == Keep(Arange(0, total_num), IsIn(r.val, used))
                       IN /\ samplers' = [samplers EXCEPT ![self].random_pr = r.pr]
                          /\ frame' = [self |-> self, user_ids |-> user_ids,
                                       num |-> num, path |-> "fast",
                                       key_ids |-> user_ids, used |-> used,
                                       value_ids |-> r.val,
                                       check_list |-> check_list, rounds |-> 0,
                                       pos_sequence |-> <<>>, entry |-> entry]
                          /\ IF check_list = <<>>
                             THEN /\ pc' = "done"
                                  /\ result' = Returned(OpOf(entry), self, arg, Tensor(r.val))
                             ELSE /\ pc' = "loop"
                                  /\ result' = NoResult
          ELSE IF total_num < 0
          THEN \* np.zeros(total_num), line 145
               /\ pc' = "done"
               /\ result' = Finish(entry, self, user_ids, num, "ValueError")
               /\ UNCHANGED <<samplers, frame>>
          ELSE LET value_ids == [i \in 1..total_num |-> 0]
                   check_list == Arange(0, total_num)
               IN /\ UNCHANGED samplers
                  /\ frame' = [self |-> self, user_ids |-> user_ids,
                               num |-> num, path |-> "mixed",
                               key_ids |-> Tile(user_ids, num), used |-> {},
                               value_ids |-> value_ids,
                               check_list |-> check_list, rounds |-> 0,
                               pos_sequence |-> <<>>, entry |-> entry]
                  /\ IF check_list = <<>>
                     THEN /\ pc' = "done"
                          /\ result' = Returned(OpOf(entry), self, arg, Tensor(value_ids))
                     ELSE /\ pc' = "loop"
                          /\ result' = NoResult
    /\ UNCHANGED input

\* Sampler.sample_by_user_ids, KGSampler.sample_by_entity_ids,
\* RepeatableSampler.sample_by_user_ids: sample_by_key_ids inside try / except
\* IndexError; SeqSampler has no such method
SampleCall(self, user_ids, num) ==
    /\ input.kind # "SeqSampler"
    /\ SampleByKeyIdsFrom("wrapper", self, user_ids, num)

\* sample_by_key_ids called on the sampler itself
SampleByKeyIds(self, key_ids, num) ==
    SampleByKeyIdsFrom("direct", self, key_ids, num)

\* one pass of the while loop, lines 126-143 (all keys equal) or 149-153
SampleRound ==
    /\ pc = "loop"
    /\ frame.path \in {"fast", "mixed"}
    /\ LET self == frame.self
           s == samplers[self]
           r == random_num(s, Len(frame.check_list))
           value_ids == Assign(frame.value_ids, frame.check_list, r.val)
           rounds == IF frame.rounds <= RoundLimit(s, frame.value_ids)
                     THEN frame.rounds + 1 ELSE frame.rounds
           arg == <<frame.user_ids, frame.num>>
           raise(err) ==
               /\ pc' = "done"
               /\ result' = Finish(frame.entry, self, frame.user_ids, frame.num, err)
               /\ frame' = NoFrame
           continue(check_list) ==
               /\ frame' = [frame EXCEPT !.value_ids = value_ids,
                                         !.check_list = check_list,
                                         !.rounds = rounds]
               /\ IF check_list = <<>>
                  THEN /\ pc' = "done"
                       /\ result' = Returned(OpOf(frame.entry), self, arg, Tensor(value_ids))
                  ELSE /\ pc' = "loop"
                       /\ result' = NoResult
       IN IF r.err # "none"
          THEN raise(r.err) /\ UNCHANGED samplers
          ELSE /\ samplers' = [samplers EXCEPT ![self].random_pr = r.pr]
               /\ IF frame.path = "fast"
                  THEN continue(Keep(frame.check_list, FastMask(r.val, frame.used)))
                  ELSE IF s.used_ids.tag \in {"dict", "None"}
                  THEN \* self.used_ids[key_ids[check_list]], line 151, on the dict
                       \* of phases or on None
                       raise("TypeError")
                  ELSE IF \E k \in 1..Len(frame.check_list) :
                            ~NpInRange(At(frame.key_ids, frame.check_list[k]),
                                       Len(s.used_ids.val))
                  THEN raise("IndexError")
                  ELSE continue(Keep(frame.check_list,
                                     MixedMask(s.used_ids.val, frame.key_ids,
                                               frame.check_list, value_ids)))
    /\ UNCHANGED input

\* SeqMask reading the positive item at the index within check_list
SeqMaskByRank(pos_sequence, check_list, value_ids) ==
    [k \in 1..Len(check_list) |->
        At(value_ids, check_list[k]) = At(pos_sequence, k - 1)]

\* line 465: the positions of check_list whose value is the positive item of
\* the same position
SeqMask(pos_sequence, check_list, value_ids) ==
    [k \in 1..Len(check_list) |->
        At(value_ids, check_list[k]) = At(pos_sequence, check_list[k])]

\* SeqSampler.sample_neg_sequence up to the first test of its while condition
\* (lines 460-463)
SampleNegSequence(self, pos_sequence) ==
    /\ pc = "idle"
    /\ input.kind = "SeqSampler"
    /\ samplers[self] # Null
    /\ LET total_num == Len(pos_sequence)
           value_ids == [i \in 1..total_num |-> 0]
           check_list == Arange(0, total_num)
       IN /\ frame' = [NoFrame EXCEPT !.self = self, !.path = "seq",
                                      !.value_ids = value_ids,
                                      !.check_list = check_list,
                                      !.pos_sequence = pos_sequence]
          /\ IF check_list = <<>>
             THEN /\ pc' = "done"
                  /\ result' = Returned("sample_neg_sequence", self, pos_sequence,
                                        Tensor(value_ids))
             ELSE /\ pc' = "loop"
                  /\ result' = NoResult
    /\ UNCHANGED <<input, samplers>>

\* one pass of the while loop of sample_neg_sequence, lines 464-466
SampleNegRound ==
    /\ pc = "loop"
    /\ frame.path = "seq"
    /\ LET self == frame.self
           s == samplers[self]
           r == random_num(s, Len(frame.check_list))
           value_ids == Assign(frame.value_ids, frame.check_list, r.val)
           check_list == Keep(frame.check_list,
                              SeqMask(frame.pos_sequence, frame.check_list, value_ids))
           rounds == IF frame.rounds <= RoundLimit(s, frame.value_ids)
                     THEN frame.rounds + 1 ELSE frame.rounds
       IN IF r.err # "none"
          THEN /\ pc' = "done"
               /\ result' = Raised("sample_neg_sequence", self, frame.pos_sequence, r.err)
               /\ frame' = NoFrame
               /\ UNCHANGED samplers
          ELSE /\ samplers' = [samplers EXCEPT ![self].random_pr = r.pr]
               /\ frame' = [frame EXCEPT !.value_ids = value_ids,
                                         !.check_list = check_list,
                                         !.rounds = rounds]
               /\ IF check_list = <<>>
                  THEN /\ pc' = "done"
                       /\ result' = Returned("sample_neg_sequence", self,
                                             frame.pos_sequence, Tensor(value_ids))
                  ELSE /\ pc' = "loop"
                       /\ result' = NoResult
    /\ UNCHANGED input

\* the caller takes the result of the finished call; the call's locals are gone
Ack ==
    /\ pc = "done"
    /\ pc' = "idle"
    /\ result' = NoResult
    /\ frame' = NoFrame
    /\ UNCHANGED <<input, samplers>>

\* ------------------------------------------------------------ the system
\* the keys the exclusion index is built for: range(self.n_users), range(self.entity_num)
Keys == IF input.kind \in {"Sampler", "RepeatableSampler"} THEN 0..(input.n_users - 1) ELSE 0..(input.n_items - 1)

KeyBatches == SeqsUpTo(Keys, MaxKeys)

Nums == 1..MaxNum

\* pos_sequence: item IDs of a padded history, the padding 0 included
PosSequences == SeqsUpTo(0..(NItems - 1), MaxSeq)

\* construction, phase selection, draws and every sampling call
Next ==
    \/ \E d \in DistTags : Construct(d)
    \/ \E self \in Instances : Random(self)
    \/ \E self \in Instances, n \in 0..MaxDraw : RandomNum(self, n)
    \/ \E self \in Instances, p \in PhaseNames : SetPhase(self, p)
    \/ \E self \in Instances, ks \in KeyBatches, n \in Nums : SampleCall(self, ks, n)
    \/ \E self \in Instances, ks \in KeyBatches, n \in Nums : SampleByKeyIds(self, ks, n)
    \/ SampleRound
    \/ \E self \in Instances, pos \in PosSequences : SampleNegSequence(self, pos)
    \/ SampleNegRound
    \/ Ack

Spec == Init /\ [][Next]_vars

\* the pool calls: set_distribution on every object, with draws, phase
\* selection and the sampling calls of one key
OneKeyBatches == SeqsUpTo(Keys, 1)

NextPool ==
    \/ \E d \in DistTags : Construct(d)
    \/ \E self \in Instances, d \in DistTags : SetDistribution(self, d)
    \/ \E self \in Instances : Random(self)
    \/ \E self \in Instances, n \in 0..MaxDraw : RandomNum(self, n)
    \/ \E self \in Instances, p \in PhaseNames : SetPhase(self, p)
    \/ \E self \in Instances, ks \in OneKeyBatches, n \in Nums : SampleCall(self, ks, n)
    \/ SampleRound
    \/ \E self \in Instances, pos \in PosSequences : SampleNegSequence(self, pos)
    \/ SampleNegRound
    \/ Ack

SpecPool == Init /\ [][NextPool]_vars

\* the sampling entry points called with any arguments: keys one past either
\* end of what numpy accepts as an index of used_ids, and num below 1
KeySize == IF input.kind \in {"Sampler", "RepeatableSampler"} THEN input.n_users ELSE input.n_items

AnyKeys == (0 - KeySize - 1)..KeySize

AnyKeyBatches == SeqsUpTo(AnyKeys, MaxKeys)

AnyNums == (0 - 1)..MaxNum

AnyOneKeyBatches == SeqsUpTo(AnyKeys, 1)

NextAnyArgs ==
    \/ \E d \in DistTags : Construct(d)
    \/ \E self \in Instances, p \in PhaseNames : SetPhase(self, p)
    \/ \E self \in Instances, ks \in AnyKeyBatches, n \in AnyNums : SampleCall(self, ks, n)
    \/ \E self \in Instances, ks \in AnyOneKeyBatches, n \in AnyNums :
          SampleByKeyIds(self, ks, n)
    \/ SampleRound
    \/ Ack

SpecAnyArgs == Init /\ [][NextAnyArgs]_vars

\* ------------------------------------------------------------ properties
Live(i) == samplers[i] # Null

\* the values the datasets of the first n phases hold for a key
Observed(key, n) ==
    {x[2] : x \in {y \in UNION {Range(input.datasets[p]) : p \in 1..n} : y[1] = key}}

\* a sampling call through either entry point
SampleOps == {"sample", "sample_by_key_ids"}

SampleReturned ==
    pc = "done" /\ result.op \in SampleOps /\ result.err = "none" /\ result.ret.tag = "tensor"

\* the key of result position p (0-based): key_ids[p mod len(key_ids)]
KeyAt(user_ids, p) == At(user_ids, p % Len(user_ids))

\* C1: whenever sample_by_key_ids returns, the value at every result position p
\* is not in used_of(key_ids[p mod len(key_ids)]), on both paths.
C1_NoExcludedValue ==
    SampleReturned =>
        LET s == samplers[result.self]
            user_ids == result.arg[1]
            ret == result.ret.val
        IN \A p \in 0..(Len(ret) - 1) :
              At(ret, p) \notin At(s.used_ids.val, KeyAt(user_ids, p))

\* a batch of two different keys, two samples each, returned after redraws
C1_Witness ==
    /\ SampleReturned
    /\ frame.path = "mixed"
    /\ frame.num = 2
    /\ frame.rounds >= 2

\* C2: with all keys equal the redraw loop of a constructed Sampler ends within
\* a bounded number of rounds, for every pool order and cursor, under either
\* distribution. The loop is deterministic and its state is (cursor, check_list):
\* a run that ends never repeats a state, so it passes at most RoundLimit rounds.
C2_FastPathTerminates ==
    (pc = "loop" /\ frame.path = "fast" /\ input.kind = "Sampler") =>
        frame.rounds <= RoundLimit(samplers[frame.self], frame.value_ids)

\* the same under the uniform distribution alone: the pool then holds every
\* value 1..n_items-1 and the key leaves one of them free
FastPathTerminatesUniform ==
    (pc = "loop" /\ frame.path = "fast"
        /\ samplers[frame.self].distribution = "uniform") =>
        frame.rounds <= RoundLimit(samplers[frame.self], frame.value_ids)

\* C3: with keys not all equal the redraw loop ends within a bounded number of
\* rounds, for every pool order and cursor; stated for the uniform pool, where
\* every key that passed the constructor's check has a pool value it may take.
C3_MixedPathTerminates ==
    (pc = "loop" /\ frame.path = "mixed"
        /\ samplers[frame.self].distribution = "uniform") =>
        frame.rounds <= RoundLimit(samplers[frame.self], frame.value_ids)

\* n successive random() calls: the values returned
RECURSIVE RandomSeq(_, _)
RandomSeq(s, n) ==
    IF n = 0 THEN <<>>
    ELSE <<random(s).val>> \o RandomSeq([s EXCEPT !.random_pr = random(s).pr], n - 1)

\* n successive random() calls: the cursor they leave
RECURSIVE RandomSeqPr(_, _)
RandomSeqPr(s, n) ==
    IF n = 0 THEN s.random_pr
    ELSE RandomSeqPr([s EXCEPT !.random_pr = random(s).pr], n - 1)

\* C4: from every pool and cursor, random_num(n) returns the sequence n successive
\* random() calls return, n above the pool length included, and both leave the
\* cursor at (cursor + n) mod len(items), modulo len(items).
C4_RandomNumIsRandomRepeated ==
    \A i \in Instances :
        (Live(i) /\ samplers[i].random_list_length > 0) =>
            LET s == samplers[i]
                len == s.random_list_length
            IN \A n \in 0..Max(MaxDraw, 2 * len + 1) :
                  /\ random_num(s, n).err = "none"
                  /\ random_num(s, n).val = RandomSeq(s, n)
                  /\ random_num(s, n).pr % len = RandomSeqPr(s, n) % len
                  /\ random_num(s, n).pr % len = (s.random_pr + n) % len

\* a cursor that random() calls moved past the end of a pool of several items
C4_Witness ==
    \E i \in Instances :
        /\ Live(i)
        /\ samplers[i].random_list_length >= 2
        /\ samplers[i].random_pr > samplers[i].random_list_length

\* C5: for every batch of valid keys, the empty one included, and num >= 1 a
\* sampling entry point that returns, returns a sequence of exactly
\* len(key_ids) * num values.
C5_ReturnsLenTimesNum ==
    (pc = "done" /\ result.op \in SampleOps /\ result.err = "none") =>
        /\ result.ret.tag = "tensor"
        /\ Len(result.ret.val) = Len(result.arg[1]) * result.arg[2]

\* some key excludes all the values but the padding one, or more
Exhausted ==
    \E key \in Keys :
        ~(Cardinality(Observed(key, Len(input.datasets))) + 1 < input.n_items)

\* the constructors that build the exclusion index from the datasets and test
\* it: KGSampler, and Sampler once it has one dataset for each phase
IndexChecked ==
    \/ input.kind = "KGSampler"
    \/ input.kind = "Sampler" /\ Len(input.phases) = Len(input.datasets)

\* C6: construction of a Sampler or KGSampler fails whenever some key's
\* cumulative exclusion set violates |used_of(key)| + 1 < value_universe_size,
\* succeeds only when every key satisfies it, and raises the exhaustion error
\* only for such a key.
C6_ConstructionFailsIffExhausted ==
    (pc # "new" /\ IndexChecked) =>
        /\ Exhausted => pc = "failed"
        /\ Live("orig") => ~Exhausted
        /\ (pc = "failed" /\ result.err = "ValueError") => Exhausted

\* a Sampler whose constructor raised the exhaustion error for a key that no
\* single phase exhausts: only the accumulated set of the last phase does
C6_Witness ==
    /\ pc = "failed"
    /\ result.err = "ValueError"
    /\ input.kind = "Sampler"
    /\ Len(input.phases) = Len(input.datasets)
    /\ \A key \in Keys : Cardinality(Observed(key, 1)) + 1 < input.n_items

PhaseIndex(phase) == CHOOSE i \in 1..Len(input.phases) : input.phases[i] = phase

\* C7: the exclusion sets grow along the phase order, the set of phase p_i holds
\* exactly the values observed in the datasets of p_1..p_i, and a sampler pinned
\* to p_j returns no value observed in p_1..p_j.
C7_PhasesAccumulate ==
    (input.kind = "Sampler" /\ Live("orig")) =>
        LET used == samplers["orig"].used_ids.val
            n == Len(input.phases)
        IN /\ \A i, j \in 1..n, key \in Keys :
                 i < j => At(used[input.phases[i]], key) \subseteq At(used[input.phases[j]], key)
           /\ \A i \in 1..n, key \in Keys :
                 At(used[input.phases[i]], key) = Observed(key, i)
           /\ (SampleReturned /\ samplers[result.self].phase \in Range(input.phases)) =>
                 \A p \in 0..(Len(result.ret.val) - 1) :
                    At(result.ret.val, p) \notin
                        Observed(KeyAt(result.arg[1], p),
                                 PhaseIndex(samplers[result.self].phase))

\* a sampler pinned to the first phase returned a value that is a positive of
\* the second phase only
C7_Witness ==
    /\ SampleReturned
    /\ input.kind = "Sampler"
    /\ samplers[result.self].phase = input.phases[1]
    /\ \E p \in 0..(Len(result.ret.val) - 1) :
          /\ At(result.ret.val, p) \in Observed(KeyAt(result.arg[1], p), 2)
          /\ At(result.ret.val, p) \notin Observed(KeyAt(result.arg[1], p), 1)

SetPhaseStep == pc = "idle" /\ pc' = "done" /\ result'.op = "set_phase"

SetDistributionStep == pc = "idle" /\ pc' = "done" /\ result'.op = "set_distribution"

\* a step of a sample call on sampler i
SampleStep(i) ==
    \/ pc = "loop" /\ frame.self = i
    \/ pc = "idle" /\ pc' = "loop" /\ frame'.self = i
    \/ pc = "idle" /\ pc' = "done" /\ result'.op \in SampleOps /\ result'.self = i

\* C8: set_phase and the sample calls on the copies it returns leave the sampler
\* they were taken from as it was (exclusion index of every phase and key, phase
\* list, pool items, cursor); no call changes the original's exclusion index or
\* phase list; and the copy's exclusion index is the original's for its phase
\* (Sampler) or the original's index itself (RepeatableSampler, which has one).
C8_SetPhaseKeepsOriginal ==
    [][(input.kind \in {"Sampler", "RepeatableSampler"} /\ Live("orig")) =>
          /\ samplers'["orig"].used_ids = samplers["orig"].used_ids
          /\ samplers'["orig"].phases = samplers["orig"].phases
          /\ (SetPhaseStep \/ SampleStep("copy")) => samplers'["orig"] = samplers["orig"]
          /\ (SetPhaseStep /\ result'.err # "none") => samplers' = samplers
          /\ samplers'["copy"] # Null =>
                /\ samplers'["copy"].phases = samplers["orig"].phases
                /\ samplers'["copy"].phase \in Range(samplers["orig"].phases)
                /\ samplers'["copy"].used_ids =
                      IF input.kind = "Sampler"
                      THEN [tag |-> "array",
                            val |-> samplers["orig"].used_ids.val[samplers'["copy"].phase]]
                      ELSE samplers["orig"].used_ids
      ]_vars

\* a copy pinned to the last phase that has sampled, with redraws
C8_Witness ==
    /\ SampleReturned
    /\ result.self = "copy"
    /\ samplers["copy"].phase = "valid"
    /\ frame.rounds >= 1
    /\ frame.path = "fast"

\* C9: on whichever sampler it is called, the constructed one or one set_phase
\* returned, set_phase(p) returns the cumulative view of p when p is a configured
\* phase and raises the unknown-phase error (ValueError) for every other name.
C9_SetPhaseOnAnySampler ==
    (pc = "done" /\ result.op = "set_phase" /\ input.kind = "Sampler") =>
        IF result.arg \in Range(input.phases)
        THEN /\ result.err = "none"
             /\ \A key \in Keys :
                   At(samplers["copy"].used_ids.val, key)
                       = Observed(key, PhaseIndex(result.arg))
        ELSE result.err = "ValueError"

PoolOf(s) == <<s.random_list, s.random_list_length, s.random_pr, s.distribution>>

\* C10 as claimed: the sampler set_phase returned and the one it came from
\* observe the same pool items and the same cursor in every reachable state.
C10_SharedPool ==
    (Live("orig") /\ Live("copy")) =>
        /\ samplers["copy"].random_list = samplers["orig"].random_list
        /\ samplers["copy"].random_pr = samplers["orig"].random_pr

\* C10 amended: set_phase hands out a sampler with the pool items, cursor and
\* distribution its source has at that moment; draw and sample calls keep the
\* two item sequences equal; every call moves the cursor of one sampler only;
\* set_distribution changes the sampler it is called on only, but for the
\* popularity pool of a RepeatableSampler, which is the dataset's item column:
\* every sampler holding it sees the order the call leaves.
C10_CopiedPool ==
    [][/\ (SetPhaseStep /\ result'.err = "none") =>
             PoolOf(samplers'["copy"]) = PoolOf(samplers[result'.self])
       /\ (Live("orig") /\ Live("copy") /\ ~SetPhaseStep /\ ~SetDistributionStep
             /\ samplers["copy"].random_list = samplers["orig"].random_list) =>
             samplers'["copy"].random_list = samplers'["orig"].random_list
       /\ (Live("orig") /\ Live("copy") /\ ~SetPhaseStep) =>
             \/ samplers'["orig"].random_pr = samplers["orig"].random_pr
             \/ samplers'["copy"].random_pr = samplers["copy"].random_pr
       /\ SetDistributionStep =>
             \A i \in Instances \ {result'.self} :
                \/ samplers'[i] = samplers[i]
                \/ /\ input.kind = "RepeatableSampler"
                   /\ result'.arg = "popularity"
                   /\ samplers[i].random_list_of = "dataset"
                   /\ samplers'[i] = [samplers[i] EXCEPT !.random_list =
                                         samplers'[result'.self].random_list]
      ]_vars

\* both samplers hold the same items and have drawn, to different cursors
C10_Witness ==
    /\ Live("orig")
    /\ Live("copy")
    /\ samplers["copy"].random_list = samplers["orig"].random_list
    /\ samplers["orig"].random_pr > 0
    /\ samplers["copy"].random_pr > samplers["orig"].random_pr

\* C11: a sample call of a phase Sampler with num >= 1 whose batch holds a key
\* that is negative or >= the key universe size ends with the key-out-of-range
\* error (ValueError) and returns no values, on both paths.
C11_OutOfRangeKeyRejected ==
    (/\ pc = "done"
     /\ result.op = "sample"
     /\ input.kind = "Sampler"
     /\ samplers[result.self].used_ids.tag = "array"
     /\ result.arg[2] >= 1
     /\ \E k \in 1..Len(result.arg[1]) :
           result.arg[1][k] < 0 \/ result.arg[1][k] >= KeySize)
        => result.err = "ValueError"

\* C12: a sample call with a batch of valid keys and num < 1 ends with an error,
\* returns no result and leaves every sampler, the cursor included, as it was.
C12_NumBelowOneRejected ==
    [][(/\ pc = "idle"
        /\ pc' = "done"
        /\ result'.op = "sample"
        /\ result'.arg[2] < 1
        /\ samplers[result'.self].used_ids.tag = "array"
        /\ Len(result'.arg[1]) > 0
        /\ \A k \in 1..Len(result'.arg[1]) : result'.arg[1][k] \in Keys)
          => /\ result'.err # "none"
             /\ samplers' = samplers
      ]_vars

\* C13: set_distribution(d) with d the sampler's current distribution returns
\* without an error and leaves pool items, their order, the pool length and the
\* cursor (every field of every sampler) unchanged, from any reachable state.
C13_SameTagIsNoOp ==
    [][(SetDistributionStep /\ result'.arg = samplers[result'.self].distribution)
          => /\ result'.err = "none"
             /\ samplers' = samplers
      ]_vars

\* set_distribution returned on a sampler whose cursor draws had advanced: a
\* rebuilt pool would have its cursor at 0
C13_Witness ==
    /\ pc = "done"
    /\ result.op = "set_distribution"
    /\ result.err = "none"
    /\ result.arg = samplers[result.self].distribution
    /\ samplers[result.self].random_pr > 0
    /\ samplers[result.self].random_list_length >= 2

\* C14: on a Sampler, KGSampler or RepeatableSampler, every set_distribution(d)
\* with d neither 'uniform' nor 'popularity' raises the unsupported-distribution error
\* (NotImplementedError) and leaves the recorded distribution, the pool items
\* and the cursor as they were before the call.
C14_UnsupportedTagRejected ==
    [][(/\ SetDistributionStep
        /\ input.kind \in {"Sampler", "KGSampler", "RepeatableSampler"}
        /\ result'.arg \notin {"uniform", "popularity"})
          => /\ result'.err = "NotImplementedError"
             /\ samplers' = samplers
      ]_vars

SeqReturned ==
    pc = "done" /\ result.op = "sample_neg_sequence" /\ result.err = "none"

\* C15: whenever sample_neg_sequence returns, the result has the length of
\* pos_sequence and holds at every position i an item of the pool that differs
\* from pos_sequence[i], for every pool order and cursor.
C15_NegSequenceDiffers ==
    SeqReturned =>
        LET pos_sequence == result.arg
            ret == result.ret.val
        IN /\ result.ret.tag = "tensor"
           /\ Len(ret) = Len(pos_sequence)
           /\ \A i \in 0..(Len(ret) - 1) :
                 /\ At(ret, i) \in Range(samplers[result.self].random_list)
                 /\ At(ret, i) # At(pos_sequence, i)

\* a sequence of several positions with different positive items, returned
\* after two rounds of redraws
C15_Witness ==
    /\ SeqReturned
    /\ Len(result.arg) >= 2
    /\ frame.rounds >= 3
    /\ \E i \in 1..(Len(result.arg) - 1) : At(result.arg, i) # At(result.arg, 0)

\* the pool s holds every integer of 1..n_items-1 exactly once
IsUniformPool(s) ==
    /\ s.random_list_length = input.n_items - 1
    /\ Len(s.random_list) = s.random_list_length
    /\ \A v \in 1..(input.n_items - 1) :
          Cardinality({k \in 1..Len(s.random_list) : s.random_list[k] = v}) = 1

\* C16: under the uniform distribution (and for a SeqSampler under every tag
\* but the '' that builds no pool) the pool is a permutation of
\* 1..universe_size-1, and every
\* value a sample call or sample_neg_sequence returns lies in [1, universe_size):
\* the 0 the result positions start with is never returned.
C16_UniformPoolNeverReturnsPad ==
    /\ \A i \in Instances :
          (Live(i) /\ (\/ samplers[i].distribution = "uniform"
                       \/ input.kind = "SeqSampler" /\ samplers[i].distribution # ""))
              => IsUniformPool(samplers[i])
    /\ (SampleReturned /\ samplers[result.self].distribution = "uniform") =>
          \A p \in 1..Len(result.ret.val) : result.ret.val[p] \in 1..(input.n_items - 1)
    /\ SeqReturned =>
          \A p \in 1..Len(result.ret.val) : result.ret.val[p] \in 1..(input.n_items - 1)

\* a mixed-key batch of more values than the pool holds, returned under the
\* uniform distribution: every position started as 0 and the pool wrapped
C16_Witness ==
    /\ SampleReturned
    /\ frame.path = "mixed"
    /\ samplers[result.self].distribution = "uniform"
    /\ Len(result.ret.val) > samplers[result.self].random_list_length

\* n items read in cyclic order from cursor c0: items[(c0 + k) mod len(items)]
CyclicRun(list, c0, n) == [k \in 1..n |-> At(list, (c0 + k - 1) % Len(list))]

\* a step that replaces a pool or hands out a new sampler
PoolStep == pc = "new" \/ SetPhaseStep \/ SetDistributionStep

\* C17: the pool is consumed in cyclic order without skip or repeat across any
\* interleaving of random(), random_num(n) and sample calls: in every reachable
\* state, with the cursor at c0, random() takes items[c0 mod len] and
\* random_num(n) takes items[(c0 + k) mod len] for k < n; every step of a
\* sample or sample_neg_sequence call writes to the result exactly the next
\* run of the pool; and every such step leaves the cursor at c0 plus the
\* number of values taken, modulo len.
C17_CyclicOrder ==
    [][\A i \in Instances :
          (Live(i) /\ samplers[i].random_list_length > 0 /\ ~PoolStep) =>
              LET s == samplers[i]
                  len == s.random_list_length
                  c0 == s.random_pr
                  c1 == samplers'[i].random_pr
              IN /\ random(s).val = CyclicRun(s.random_list, c0, 1)[1]
                 /\ random(s).pr = c0 + 1
                 /\ \A n \in 0..MaxDraw :
                       /\ random_num(s, n).val = CyclicRun(s.random_list, c0, n)
                       /\ random_num(s, n).pr % len = (c0 + n) % len
                 /\ (pc = "idle" /\ pc' = "idle") =>
                       \/ c1 = c0
                       \/ c1 = random(s).pr
                       \/ \E n \in 0..MaxDraw : c1 = random_num(s, n).pr
                 /\ (pc = "idle" /\ pc' # "idle" /\ frame'.self = i
                        /\ frame'.path = "fast") =>
                       /\ frame'.value_ids
                             = CyclicRun(s.random_list, c0, Len(frame'.value_ids))
                       /\ c1 % len = (c0 + Len(frame'.value_ids)) % len
                 /\ (pc = "idle" /\ pc' # "idle"
                        /\ ~(frame'.self = i /\ frame'.path = "fast")) => c1 = c0
                 /\ (pc = "loop" /\ frame.self = i) =>
                       /\ c1 % len = (c0 + Len(frame.check_list)) % len
                       /\ frame' # NoFrame =>
                             Take(frame'.value_ids, frame.check_list)
                                 = CyclicRun(s.random_list, c0, Len(frame.check_list))
                 /\ (pc = "loop" /\ frame.self # i) => c1 = c0
      ]_vars

\* a batch for one key returned after redraws, with more values taken than
\* the pool holds
C17_Witness ==
    /\ SampleReturned
    /\ frame.path = "fast"
    /\ frame.rounds >= 1
    /\ samplers[result.self].random_list_length >= 2
    /\ Len(frame.value_ids) + frame.rounds > samplers[result.self].random_list_length

\* C18: random(), random_num(n), sample calls and sample_neg_sequence change no
\* field of any sampler but the cursor: the pool items, their order and number,
\* the distribution tag, the exclusion index and the phase stay as they are,
\* also in the rounds that overwrite colliding result positions.
C18_DrawsMoveCursorOnly ==
    [][\A i \in Instances :
          (Live(i) /\ ~PoolStep) =>
              samplers'[i] = [samplers[i] EXCEPT !.random_pr = samplers'[i].random_pr]
      ]_vars

\* a batch for one key under the popularity distribution, returned after
\* colliding positions were overwritten in two rounds
C18_Witness ==
    /\ SampleReturned
    /\ frame.path = "fast"
    /\ frame.rounds >= 2
    /\ samplers[result.self].distribution = "popularity"

\* one pass of the generic loop, lines 149-153: [value_ids, check_list, pr]
MixedRound(s, key_ids, value_ids, check_list) ==
    LET r == random_num(s, Len(check_list))
        v == Assign(value_ids, check_list, r.val)
    IN [value_ids |-> v,
        check_list |-> Keep(check_list, MixedMask(s.used_ids.val, key_ids, check_list, v)),
        pr |-> r.pr]

\* C19: for a batch whose keys are all equal, every step of the fast path is the
\* step the generic loop takes on the same batch from the same pool state: the
\* first draw with np.isin is the generic loop's first pass over all positions,
\* and every redraw round leaves the values, the positions still to redraw and
\* the cursor that one pass of the generic loop leaves, so both return the same
\* sequence and the same cursor.
C19_FastPathIsGenericLoop ==
    [][/\ (pc = "idle" /\ pc' # "idle" /\ frame'.path = "fast") =>
             LET s == samplers[frame'.self]
                 total_num == Len(frame'.user_ids) * frame'.num
                 g == MixedRound(s, Tile(frame'.user_ids, frame'.num),
                                 [i \in 1..total_num |-> 0], Arange(0, total_num))
             IN /\ frame'.value_ids = g.value_ids
                /\ frame'.check_list = g.check_list
                /\ samplers'[frame'.self].random_pr = g.pr
                /\ (pc' = "done") = (g.check_list = <<>>)
       /\ (pc = "loop" /\ frame.path = "fast") =>
             LET s == samplers[frame.self]
                 g == MixedRound(s, Tile(frame.user_ids, frame.num),
                                 frame.value_ids, frame.check_list)
             IN /\ frame'.value_ids = g.value_ids
                /\ frame'.check_list = g.check_list
                /\ samplers'[frame.self].random_pr = g.pr
                /\ (pc' = "done") = (g.check_list = <<>>)
                /\ pc' = "done" => result'.ret = Tensor(g.value_ids)
      ]_vars

\* a redraw round of the fast path after which several of the positions it
\* drew still collide and hold the same value: the round's draws had duplicates
C19_Witness ==
    /\ pc = "loop"
    /\ frame.path = "fast"
    /\ frame.rounds >= 1
    /\ Len(frame.check_list) >= 2
    /\ \A k \in 1..Len(frame.check_list) :
          At(frame.value_ids, frame.check_list[k])
              = At(frame.value_ids, frame.check_list[1])
====
